---- MODULE Spec2Model ----
(***************************************************************************)
(* Model of app.py: a Flask API that hands two Celery tasks to a broker    *)
(* (POST /api/send-email, POST /api/start-task) and reads their state back *)
(* from the result backend (GET /api/task-status/<task_id>).               *)
(*                                                                         *)
(* Three processes take steps: the HTTP handlers of the Flask process, the *)
(* Celery worker that executes the task bodies, and the result backend     *)
(* that both talk to.  Celery's state names are kept as Celery spells      *)
(* them: PENDING, SUCCESS, FAILURE.  The application never sets            *)
(* task_track_started, so the backend never records STARTED.               *)
(***************************************************************************)
EXTENDS Integers, Sequences, FiniteSets, TLC

VARIABLES
    tasks,    \* task id -> the message published by .delay() and its execution
    queue,    \* the broker's queue: ids of the messages no worker has taken yet
    backend,  \* the result backend: task id -> stored meta of a finished task
    conn,     \* the GET /task-status request being served, between its two reads
    resp,     \* the HTTP response last sent, none once a status request came in
    accepted  \* the 202 responses sent so far, oldest first

vars == <<tasks, queue, backend, conn, resp, accepted>>

-----------------------------------------------------------------------------
(* Bounds of the model *)

\* number of jobs the two POST endpoints accept in a run
MaxJobs == 2

-----------------------------------------------------------------------------
(* Values *)

\* Python / JSON values, tagged by type
PyStr(s) == [t |-> "str", s |-> s, n |-> 0]
PyInt(n) == [t |-> "int", s |-> "", n |-> n]
None == [t |-> "NoneType", s |-> "", n |-> 0]
\* an exception instance of class cls
Exc(cls) == [t |-> "exc", s |-> cls, n |-> 0]
\* the KeyError of a missing key
KeyError(key) == Exc("KeyError")

IsExc(v) == v.t = "exc"

Digits == <<"0", "1", "2", "3", "4", "5", "6", "7", "8", "9">>

RECURSIVE NatToStr(_)
NatToStr(n) ==
    IF n < 10 THEN Digits[n + 1]
    ELSE NatToStr(n \div 10) \o Digits[(n % 10) + 1]

\* str() of a Python int
IntToStr(n) == IF n < 0 THEN "-" \o NatToStr(-n) ELSE NatToStr(n)

\* what an f-string puts in place of {v}
Format(v) ==
    CASE v.t = "str" -> v.s
      [] v.t = "int" -> IntToStr(v.n)
      [] OTHER -> "None"

-----------------------------------------------------------------------------
(* Request bodies: a JSON object is a function from its keys to values *)

Object(keys, all) == [k \in keys |-> all[k]]

EmailFields == [to |-> PyStr("a@b.c"), subject |-> PyStr("hi"), message |-> PyStr("text")]
\* the complete body, and the bodies that lack one of its fields
EmailBodies ==
    {EmailFields}
    \cup {Object(DOMAIN EmailFields \ {k}, EmailFields) : k \in DOMAIN EmailFields}

TaskNames == {"build"}
Durations == {PyInt(2), PyStr("2")}
TaskBodies ==
    {[name |-> PyStr(nm)] : nm \in TaskNames}
    \cup {[duration |-> PyInt(2)]}
    \cup {[name |-> PyStr(nm), duration |-> d] : nm \in TaskNames, d \in Durations}

\* data.get(key) in place of data[key]: a missing key reads as None
LookupOrNone(data, key) == IF key \in DOMAIN data THEN data[key] ELSE None

\* data[key]
Lookup(data, key) == IF key \in DOMAIN data THEN data[key] ELSE KeyError(key)

\* data.get(key): the default is dropped
GetNoDefault(data, key, default) == IF key \in DOMAIN data THEN data[key] ELSE None

\* data.get(key, default)
Get(data, key, default) == IF key \in DOMAIN data THEN data[key] ELSE default

DefaultDuration == 5

-----------------------------------------------------------------------------
(* The Celery client: .delay() and AsyncResult *)

\* the identifier celery gives the n-th message it publishes (a fresh uuid)
Uuid(n) == "id-" \o IntToStr(n)

Message(name, args) == [name |-> name, args |-> args, pc |-> "queued", i |-> 0, out |-> 0]

\* the AsyncResult that .delay() returns
AsyncResult(id, name) == [id |-> id, name |-> name]

\* task.delay(*args).get(): the handler waits until the task has run
DelayAndGet(id, name, args) ==
    /\ tasks' = [x \in DOMAIN tasks \cup {id} |->
                    IF x = id THEN [Message(name, args) EXCEPT !.pc = "done"]
                    ELSE tasks[x]]
    /\ queue' = queue
    /\ backend' = [x \in DOMAIN backend \cup {id} |->
                      IF x = id THEN [status |-> "SUCCESS", result |-> None]
                      ELSE backend[x]]

\* task.delay(*args): publish the message under identifier id and return at once
Delay(id, name, args) ==
    /\ tasks' = [x \in DOMAIN tasks \cup {id} |->
                    IF x = id THEN Message(name, args) ELSE tasks[x]]
    /\ queue' = Append(queue, id)
    /\ backend' = backend

READY_STATES == {"SUCCESS", "FAILURE"}

\* backend.get_task_meta(task_id): an identifier with no stored meta is PENDING
GetTaskMeta(task_id) ==
    IF task_id \in DOMAIN backend THEN backend[task_id]
    ELSE [status |-> "PENDING", result |-> None]

NoMeta == [status |-> "", result |-> None]

-----------------------------------------------------------------------------
(* HTTP responses *)

NoResponse ==
    [route |-> "", request |-> <<>>, code |-> 0, message |-> "",
     task_id |-> "", status |-> "", result |-> None]

\* 'task_id': task.name in place of task.id
AcceptedName(route, data, message, task) ==
    [route |-> route, request |-> data, code |-> 202, message |-> message,
     task_id |-> task.name, status |-> "", result |-> None]

\* return {'message': ..., 'task_id': task.id}, 202
Accepted(route, data, message, task) ==
    [route |-> route, request |-> data, code |-> 202, message |-> message,
     task_id |-> task.id, status |-> "", result |-> None]

\* an exception that leaves the handler: Flask answers 500
InternalServerError(route, data) ==
    [route |-> route, request |-> data, code |-> 500,
     message |-> "Internal Server Error",
     task_id |-> "", status |-> "", result |-> None]

\* the returned dict is serialised to JSON; an exception instance among its
\* values makes json.dumps raise TypeError, which leaves the handler
Jsonify(route, data, task_id, status, result) ==
    IF IsExc(result) THEN InternalServerError(route, data)
    ELSE [route |-> route, request |-> data, code |-> 200, message |-> "",
          task_id |-> task_id, status |-> status, result |-> result]

-----------------------------------------------------------------------------
(* Init *)

Idle == [pc |-> "idle", task_id |-> "", status |-> "", cache |-> NoMeta]

Init ==
    /\ tasks = <<>>
    /\ queue = <<>>
    /\ backend = <<>>
    /\ conn = Idle
    /\ resp = NoResponse
    /\ accepted = <<>>

-----------------------------------------------------------------------------
(* Flask handlers *)

\* SendEmail.post
SendEmailPost(data) ==
    LET args == <<Lookup(data, "to"), Lookup(data, "subject"), Lookup(data, "message")>>
        id == Uuid(Cardinality(DOMAIN tasks) + 1)
    IN  IF \E k \in 1..3 : IsExc(args[k])
        THEN /\ resp' = InternalServerError("send-email", data)
             /\ UNCHANGED <<tasks, queue, backend, conn, accepted>>
        ELSE /\ Cardinality(DOMAIN tasks) < MaxJobs
             /\ Delay(id, "send_email_async", args)
             /\ resp' = Accepted("send-email", data, "Email task started",
                                 AsyncResult(id, "send_email_async"))
             /\ accepted' = Append(accepted, resp')
             /\ UNCHANGED conn

\* StartTask.post
StartTaskPost(data) ==
    LET args == <<Lookup(data, "name"), Get(data, "duration", PyInt(DefaultDuration))>>
        id == Uuid(Cardinality(DOMAIN tasks) + 1)
    IN  IF IsExc(args[1])
        THEN /\ resp' = InternalServerError("start-task", data)
             /\ UNCHANGED <<tasks, queue, backend, conn, accepted>>
        ELSE /\ Cardinality(DOMAIN tasks) < MaxJobs
             /\ Delay(id, "long_running_task_async", args)
             /\ resp' = Accepted("start-task", data, "Task started",
                                 AsyncResult(id, "long_running_task_async"))
             /\ accepted' = Append(accepted, resp')
             /\ UNCHANGED conn

\* TaskStatus.get, up to the read of task.status: AsyncResult keeps the meta it
\* read only when the state is a ready state
TaskStatusGetStatus(task_id) ==
    LET meta == GetTaskMeta(task_id)
    IN  /\ conn.pc = "idle"
        /\ conn' = [pc |-> "result", task_id |-> task_id, status |-> meta.status,
                    cache |-> IF meta.status \in READY_STATES THEN meta ELSE NoMeta]
        /\ resp' = NoResponse
        /\ UNCHANGED <<tasks, queue, backend, accepted>>

\* TaskStatus.get with a task.forget() after the reads: the stored meta is dropped
TaskStatusGetResultForget ==
    LET meta == IF conn.cache # NoMeta THEN conn.cache ELSE GetTaskMeta(conn.task_id)
    IN  /\ conn.pc = "result"
        /\ resp' = Jsonify("task-status", [task_id |-> PyStr(conn.task_id)],
                           conn.task_id, conn.status, meta.result)
        /\ backend' = [x \in DOMAIN backend \ {conn.task_id} |-> backend[x]]
        /\ conn' = Idle
        /\ UNCHANGED <<tasks, queue, accepted>>

\* TaskStatus.get, from the read of task.result to the response
TaskStatusGetResult ==
    LET meta == IF conn.cache # NoMeta THEN conn.cache ELSE GetTaskMeta(conn.task_id)
        r == Jsonify("task-status", [task_id |-> PyStr(conn.task_id)],
                     conn.task_id, conn.status, meta.result)
    IN  /\ conn.pc = "result"
        /\ resp' = r
        /\ conn' = Idle
        /\ UNCHANGED <<tasks, queue, backend, accepted>>

-----------------------------------------------------------------------------
(* The Celery worker *)

Store(id, status, result) ==
    backend' = [x \in DOMAIN backend \cup {id} |->
                   IF x = id THEN [status |-> status, result |-> result]
                   ELSE backend[x]]

\* a worker process takes the oldest message off the queue and calls the task
Receive ==
    /\ queue # <<>>
    /\ tasks' = [tasks EXCEPT ![Head(queue)].pc = "running"]
    /\ queue' = Tail(queue)
    /\ UNCHANGED <<backend, conn, resp, accepted>>

\* send_email_async: the prints, time.sleep(3) and the return
send_email_async_run(id) ==
    /\ tasks[id].pc = "running"
    /\ tasks[id].name = "send_email_async"
    /\ tasks' = [tasks EXCEPT ![id].pc = "done"]
    /\ Store(id, "SUCCESS",
             PyStr("Email sent to " \o Format(tasks[id].args[1]) \o " successfully!"))
    /\ UNCHANGED <<queue, conn, resp, accepted>>

\* range(duration) accepts an int only
RangeRaises(duration) == duration.t # "int"

\* long_running_task_async: range(duration) raises TypeError; the worker
\* stores the exception as the result of a FAILURE
long_running_task_async_raise(id) ==
    /\ tasks[id].pc = "running"
    /\ tasks[id].name = "long_running_task_async"
    /\ RangeRaises(tasks[id].args[2])
    /\ tasks' = [tasks EXCEPT ![id].pc = "done"]
    /\ Store(id, "FAILURE", Exc("TypeError"))
    /\ UNCHANGED <<queue, conn, resp, accepted>>

\* long_running_task_async: one turn of the loop, a progress line and sleep(1)
long_running_task_async_loop(id) ==
    /\ tasks[id].pc = "running"
    /\ tasks[id].name = "long_running_task_async"
    /\ ~RangeRaises(tasks[id].args[2])
    /\ tasks[id].i < tasks[id].args[2].n
    /\ tasks' = [tasks EXCEPT ![id].i = @ + 1, ![id].out = @ + 1]
    /\ UNCHANGED <<queue, backend, conn, resp, accepted>>

\* f"Task {task_name} completed in {i} seconds" with i the last loop index
TaskResultLoopIndex(task_name, duration) ==
    PyStr("Task " \o Format(task_name) \o " completed in "
          \o (IF duration.t = "int" THEN IntToStr(duration.n - 1) ELSE Format(duration))
          \o " seconds")

\* f"Task {task_name} completed in {duration} seconds"
TaskResult(task_name, duration) ==
    PyStr("Task " \o Format(task_name) \o " completed in " \o Format(duration) \o " seconds")

\* long_running_task_async: the loop is over, the function returns
long_running_task_async_return(id) ==
    /\ tasks[id].pc = "running"
    /\ tasks[id].name = "long_running_task_async"
    /\ ~RangeRaises(tasks[id].args[2])
    /\ tasks[id].i >= tasks[id].args[2].n
    /\ tasks' = [tasks EXCEPT ![id].pc = "done"]
    /\ Store(id, "SUCCESS", TaskResult(tasks[id].args[1], tasks[id].args[2]))
    /\ UNCHANGED <<queue, conn, resp, accepted>>

Worker ==
    \/ Receive
    \/ \E id \in DOMAIN tasks : send_email_async_run(id)
    \/ \E id \in DOMAIN tasks : long_running_task_async_raise(id)
    \/ \E id \in DOMAIN tasks : long_running_task_async_loop(id)
    \/ \E id \in DOMAIN tasks : long_running_task_async_return(id)

-----------------------------------------------------------------------------
(* Specifications *)

Next ==
    \/ \E data \in EmailBodies : SendEmailPost(data)
    \/ \E data \in TaskBodies : StartTaskPost(data)
    \/ \E task_id \in DOMAIN tasks : TaskStatusGetStatus(task_id)
    \/ TaskStatusGetResult
    \/ Worker

Spec == Init /\ [][Next]_vars

\* the worker pool keeps executing what it has been given
FairSpec == Spec /\ WF_vars(Worker)

-----------------------------------------------------------------------------
(* Properties *)

Required(route) == IF route = "send-email" THEN {"to", "subject", "message"} ELSE {"name"}
IsPost(r) == r.route \in {"send-email", "start-task"}
Complete(r) == Required(r.route) \subseteq DOMAIN r.request
\* this step sent the response of a POST
Posted == resp' # resp /\ IsPost(resp')
\* this step sent the response of GET /task-status/<conn.task_id>
Answered == conn.pc = "result" /\ conn'.pc = "idle"
LongTask(id) == id \in DOMAIN tasks /\ tasks[id].name = "long_running_task_async"

\* C1: POST /send-email with to, subject and message answers 202 with a task
\* identifier, and with one of them missing answers with a 4xx status.
C1_SendEmailAnswers202Or4xx ==
    resp.route = "send-email" =>
        IF Complete(resp) THEN resp.code = 202 /\ resp.task_id # ""
        ELSE resp.code \in 400..499

\* C2: a POST lacking a required field enqueues nothing, a POST carrying them
\* all enqueues exactly one job, and no other step adds a job: the jobs in the
\* broker are the requests that carried all required fields.
C2_JobsAreTheCompleteRequests ==
    [][/\ Posted /\ ~Complete(resp') => tasks' = tasks /\ queue' = queue
       /\ Posted /\ Complete(resp') =>
            \E id \in DOMAIN tasks' \ DOMAIN tasks :
                /\ DOMAIN tasks' = DOMAIN tasks \cup {id}
                /\ queue' = Append(queue, id)
                /\ \A k \in Required(resp'.route) :
                       \E a \in DOMAIN tasks'[id].args :
                           tasks'[id].args[a] = resp'.request[k]
       /\ DOMAIN tasks' # DOMAIN tasks => Posted /\ Complete(resp')]_vars

C2_Witness ==
    /\ IsPost(resp) /\ ~Complete(resp) /\ resp.code = 500
    /\ Cardinality(DOMAIN tasks) = 1
    /\ Len(queue) = 1

\* C3: a job whose execution raises ends in FAILURE with the error as result,
\* its submission was answered 202, and a later GET /task-status for it
\* answers 200 with status FAILURE and the error as result.
C3_FailedJobIsReported ==
    [][/\ \A id \in DOMAIN tasks :
            LongTask(id) /\ tasks[id].pc = "done" /\ tasks[id].args[2].t # "int" =>
                backend[id].status = "FAILURE" /\ IsExc(backend[id].result)
       /\ Posted /\ Complete(resp') => resp'.code = 202
       /\ Answered /\ conn.status = "FAILURE" =>
            /\ resp'.code = 200
            /\ resp'.task_id = conn.task_id
            /\ resp'.status = "FAILURE"
            /\ IsExc(resp'.result)]_vars

\* C4: GET /task-status for an identifier issued by either endpoint answers
\* with that job's own current status and result.
C4_IssuedIdResolves ==
    [][Answered /\ conn.task_id \in DOMAIN tasks =>
            /\ resp'.code = 200
            /\ resp'.task_id = conn.task_id
            /\ resp'.status = GetTaskMeta(conn.task_id).status
            /\ resp'.result = GetTaskMeta(conn.task_id).result]_vars

\* C5: a POST carrying all required fields is answered 202 with a message and
\* the task identifier in the step that enqueues the job: the job is still
\* queued, nothing is stored for it, and no job has moved.
C5_AcceptedBeforeAnyWorkerStep ==
    [][Posted /\ Complete(resp') =>
            /\ resp'.code = 202
            /\ resp'.message # ""
            /\ resp'.task_id \in DOMAIN tasks' \ DOMAIN tasks
            /\ tasks'[resp'.task_id].pc = "queued"
            /\ resp'.task_id \notin DOMAIN backend'
            /\ \A id \in DOMAIN tasks : tasks'[id] = tasks[id]
            /\ backend' = backend]_vars

C5_Witness ==
    /\ resp.code = 202
    /\ resp.task_id \in DOMAIN tasks
    /\ tasks[resp.task_id].pc = "queued"
    /\ GetTaskMeta(resp.task_id).status = "PENDING"
    /\ \E id \in DOMAIN tasks : tasks[id].pc = "running"

IntTask(id) == LongTask(id) /\ tasks[id].args[2].t = "int"
Succeeded(id) ==
    /\ id \in DOMAIN backend
    /\ backend[id].status = "SUCCESS"
    /\ backend[id].result =
           PyStr("Task " \o tasks[id].args[1].s \o " completed in "
                 \o IntToStr(tasks[id].args[2].n) \o " seconds")
    /\ tasks[id].out = tasks[id].args[2].n

\* C6: with a worker that keeps running, every long_running_task job with an
\* integer duration reaches SUCCESS with the result "Task <name> completed in
\* <duration> seconds", having printed one progress line per unit of duration:
\* from some point on this is true of every such job that was submitted.
C6_LongTaskSucceeds == <>[](\A id \in DOMAIN tasks : IntTask(id) => Succeeded(id))

C6_Witness ==
    \E id \in DOMAIN tasks : IntTask(id) /\ Succeeded(id) /\ tasks[id].out = 2

\* C7: the task identifiers of the 202 responses are non-empty and pairwise
\* different.
C7_TaskIdsUnique ==
    \A j, k \in DOMAIN accepted :
        /\ accepted[j].task_id # ""
        /\ j # k => accepted[j].task_id # accepted[k].task_id

C7_Witness ==
    /\ Len(accepted) = 2
    /\ accepted[1].route = "start-task"
    /\ accepted[2].route = "start-task"

\* C8: POST /start-task without duration submits the job with duration 5 and
\* its result, once stored, says 5 seconds; with duration in the body the job
\* is submitted with exactly that value.
C8_DefaultDuration ==
    \A k \in DOMAIN accepted :
        LET r == accepted[k]
            id == r.task_id
        IN  r.route = "start-task" =>
                /\ LongTask(id)
                /\ "duration" \in DOMAIN r.request =>
                       tasks[id].args[2] = r.request.duration
                /\ "duration" \notin DOMAIN r.request =>
                       /\ tasks[id].args[2] = PyInt(5)
                       /\ id \in DOMAIN backend =>
                              /\ backend[id].status = "SUCCESS"
                              /\ backend[id].result =
                                     PyStr("Task " \o r.request.name.s
                                           \o " completed in 5 seconds")
                              /\ tasks[id].out = 5

C8_Witness ==
    \E k \in DOMAIN accepted :
        /\ accepted[k].route = "start-task"
        /\ "duration" \notin DOMAIN accepted[k].request
        /\ accepted[k].task_id \in DOMAIN backend

C10_ResultOnlyWhenTerminal ==
    resp.route = "task-status" /\ resp.code = 200 /\ resp.result # None =>
        resp.status \in READY_STATES

====
